---- MODULE Spec2Model ----
(***************************************************************************)
(* bq27xxx-rs: the register / memory-block protocol engine of the driver,  *)
(* run against a simulated gauge.  Every bus transaction and every delay   *)
(* of the driver is one step; the bus log records them in order.           *)
(***************************************************************************)
EXTENDS Integers, Sequences, FiniteSets

VARIABLES chip, log, pc, stack, loc, result, op, prev, left

vars == <<chip, log, pc, stack, loc, result, op, prev, left>>

(***************************************************************************)
(* Bounds of the model.                                                    *)
(***************************************************************************)
\* operations run in succession against one chip
MaxOps == 2
\* the simulated chip raises CFGUPMODE after at most this many clear polls,
\* or not at all
MaxChipLatency == 1

(***************************************************************************)
(* Program constants.                                                      *)
(***************************************************************************)
MEMBLOCK_SIZE == 32
FLAG_POLL_RETRIES == 10
FLAG_POLL_DELAY_MS == 500
SETTLE_DELAY_MS == 5

CONTROL == 0
FLAGS == 6
DATA_CLASS == 62
DATA_BLOCK == 63
BLOCK_DATA == 64
BLOCK_DATA_CHECKSUM == 96
BLOCK_DATA_CONTROL == 97

SET_CFGUPDATE == 19
CHEM_A == 48
CHEM_B == 49
CHEM_C == 50
SOFT_RESET == 66

DEVICE_TYPE == 1
FW_VERSION == 2
VOLTAGE == 4

SUBCLASS_STATE == 82
SUBCLASS_CC_CAL == 105

CFGUPMODE == 16
ALL_FLAGS == 50175
SIGN_BIT == 128
SIGN_BYTE_OFFSET == BLOCK_DATA + 5

(***************************************************************************)
(* Integer helpers: u8 / u16 arithmetic and bit operations.                *)
(***************************************************************************)
RECURSIVE BitAnd(_, _)
BitAnd(a, b) ==
    IF a = 0 \/ b = 0 THEN 0
    ELSE (IF a % 2 = 1 /\ b % 2 = 1 THEN 1 ELSE 0) + 2 * BitAnd(a \div 2, b \div 2)

RECURSIVE BitXor(_, _)
BitXor(a, b) ==
    IF a = 0 THEN b
    ELSE IF b = 0 THEN a
    ELSE (IF a % 2 # b % 2 THEN 1 ELSE 0) + 2 * BitXor(a \div 2, b \div 2)

\* !mask on a u8
BitNot8(a) == 255 - a

\* the addition as a mutated driver could do it: the sum stops at 255
saturating_add(a, b) == IF a + b > 255 THEN 255 ELSE a + b

\* u8::wrapping_add
wrapping_add(a, b) == (a + b) % 256

\* the decode as a mutated driver could do it: most significant byte first
from_be_bytes(response) == response[2] + 256 * response[1]

\* u16::from_le_bytes
from_le_bytes(response) == response[1] + 256 * response[2]

\* the store as a mutated driver could do it: least significant byte first
LittleEndian_write_u16(block, at, v) ==
    [block EXCEPT ![at] = v % 256, ![at + 1] = (v \div 256) % 256]

\* BigEndian::write_u16(&mut block[6..8], v)
BigEndian_write_u16(block, at, v) ==
    [block EXCEPT ![at] = (v \div 256) % 256, ![at + 1] = v % 256]

\* BigEndian::read_u16(&block[6..8])
BigEndian_read_u16(block, at) == block[at] * 256 + block[at + 1]

\* [u8; MEMBLOCK_SIZE]: Default::default()
DefaultBlock == [i \in 0..(MEMBLOCK_SIZE - 1) |-> 0]

RECURSIVE SumFrom(_, _)
SumFrom(block, i) ==
    IF i >= MEMBLOCK_SIZE THEN 0 ELSE wrapping_add(block[i], SumFrom(block, i + 1))

\* Simple checksum used by the gauge
calculate_block_checksum(block) == 255 - SumFrom(block, 0)

\* StatusFlags::from_bits_truncate
from_bits_truncate(raw) == BitAnd(raw, ALL_FLAGS)

\* a mutated contains: any flags value satisfies the mask
contains_always(flags, mask) == TRUE

\* StatusFlags::contains
contains(flags, mask) == BitAnd(flags, mask) = mask

(***************************************************************************)
(* The simulated chip.                                                     *)
(*   mem      configuration memory, one 32-byte block per (subclass, block)*)
(*   sel_*    the block selector registers (0x3E, 0x3F)                    *)
(*   window   the block-data registers 0x40..0x5F                          *)
(*   cfgup    ConfigUpdate mode (FLAGS.CFGUPMODE)                          *)
(*   wait     FLAGS reads still answered with CFGUPMODE clear before the   *)
(*            chip enters ConfigUpdate; Never when no entry is pending     *)
(***************************************************************************)
Never == -1

Latencies == (0..MaxChipLatency) \cup {Never}

\* checksum-register responses: the stored value, or a value off by this much
GlitchDeltas == {0, 16}

MemKeys == {<<SUBCLASS_STATE, 0>>, <<SUBCLASS_CC_CAL, 0>>, <<SUBCLASS_CC_CAL, 1>>}

StateBlock0 == [DefaultBlock EXCEPT ![0] = 7, ![6] = 4, ![7] = 176, ![31] = 9]

CcCalBlock0(b5) == [DefaultBlock EXCEPT ![4] = 127, ![5] = b5, ![6] = 3, ![7] = 1]

CcCalBlock1 == [DefaultBlock EXCEPT ![0] = 61, ![5] = 200]

GainBytes == {5, 133}

\* the other FLAGS bits the chip reports (BAT_DET)
FlagBases == {8}

InitMem(b5) ==
    [k \in MemKeys |->
        IF k = <<SUBCLASS_STATE, 0>> THEN StateBlock0
        ELSE IF k = <<SUBCLASS_CC_CAL, 0>> THEN CcCalBlock0(b5)
        ELSE CcCalBlock1]

Selected(c) == <<c.sel_class, c.sel_block>>

LoadWindow(c) ==
    IF Selected(c) \in MemKeys THEN [c EXCEPT !.window = c.mem[Selected(c)]] ELSE c

ChipControl(c, sub, d) ==
    IF sub = SET_CFGUPDATE
    THEN IF c.cfgup THEN c ELSE [c EXCEPT !.cfgup = (d = 0), !.wait = d]
    ELSE IF sub = SOFT_RESET
    THEN [c EXCEPT !.cfgup = FALSE, !.wait = Never]
    ELSE c

\* the chip after a bus write of `bytes`; d is the latency it picks on SET_CFGUPDATE
ChipWrite(c, bytes, d) ==
    IF Len(bytes) = 3 /\ bytes[1] = CONTROL
    THEN ChipControl(c, bytes[2] + 256 * bytes[3], d)
    ELSE IF Len(bytes) # 2 THEN c
    ELSE IF bytes[1] = DATA_CLASS THEN LoadWindow([c EXCEPT !.sel_class = bytes[2]])
    ELSE IF bytes[1] = DATA_BLOCK THEN LoadWindow([c EXCEPT !.sel_block = bytes[2]])
    ELSE IF bytes[1] >= BLOCK_DATA /\ bytes[1] < BLOCK_DATA + MEMBLOCK_SIZE
    THEN [c EXCEPT !.window[bytes[1] - BLOCK_DATA] = bytes[2]]
    ELSE IF bytes[1] = BLOCK_DATA_CHECKSUM
    THEN IF c.cfgup /\ Selected(c) \in MemKeys
            /\ bytes[2] = 255 - SumFrom(c.window, 0)
         THEN [c EXCEPT !.mem[Selected(c)] = c.window]
         ELSE c
    ELSE c

\* the FLAGS register as the chip reports it
ChipFlags(c) == c.flags + (IF c.cfgup THEN CFGUPMODE ELSE 0)

\* the chip after answering a read of register reg
ChipAfterRead(c, reg) ==
    IF reg = FLAGS /\ c.wait > 0
    THEN [c EXCEPT !.wait = c.wait - 1, !.cfgup = (c.wait - 1 = 0)]
    ELSE c

\* the chip's answer to a read of n bytes from register reg; g is the glitch on
\* the checksum register
ChipResponse(c, reg, n, g) ==
    IF reg = FLAGS THEN <<ChipFlags(c) % 256, ChipFlags(c) \div 256>>
    ELSE IF reg = BLOCK_DATA_CHECKSUM
    THEN <<((255 - SumFrom(c.window, 0)) + g) % 256>>
    ELSE IF reg >= BLOCK_DATA /\ reg + n <= BLOCK_DATA + MEMBLOCK_SIZE
    THEN [i \in 1..n |-> c.window[reg - BLOCK_DATA + i - 1]]
    ELSE [i \in 1..n |-> 0]

\* the block a response of 32 bytes fills
AsBlock(resp) == [i \in 0..(MEMBLOCK_SIZE - 1) |-> resp[i + 1]]

(***************************************************************************)
(* The driver.  pc is the position inside the running function, stack the  *)
(* positions the running functions return to, loc the local variables:     *)
(*   class, at      the block address of the memory-block functions        *)
(*   data           the caller's 32-byte buffer                            *)
(*   checksum       `checksum` of the running function                     *)
(*   chip_checksum  `chip_checksum` of memblock_write                      *)
(*   tries          polls done by wait_flags                               *)
(*   index          position of the data-write loop                        *)
(*   sign           `cc_gain_sign_part` of check_fix_bq27427_errata        *)
(*   mwFrom         length of the bus log when memblock_write was entered  *)
(*                  (-1 before)                                            *)
(*   command        the opcode of read_command, the subcommand of          *)
(*                  read_control                                           *)
(*   value          the u16 read_command / read_control return             *)
(*   device_type    `device_type` of probe                                 *)
(*   flags          the StatusFlags get_flags returns                      *)
(***************************************************************************)
NoLoc ==
    [class |-> 0, at |-> 0, data |-> DefaultBlock, checksum |-> 0,
     chip_checksum |-> 0, tries |-> 0, index |-> 0, sign |-> 0, mwFrom |-> -1,
     command |-> 0, value |-> 0, device_type |-> "none", flags |-> 0]

NoOp ==
    [name |-> "none", class |-> 0, at |-> 0, data |-> DefaultBlock,
     capacity |-> 0, id |-> "none", mem0 |-> <<>>, cfgup0 |-> FALSE]

\* sign0: the gain sign bit was set when the previous operation began
NoPrev == [op |-> NoOp, result |-> "none", sign0 |-> FALSE]

Frame == UNCHANGED <<op, prev, left>>

\* Err(res)?: the error leaves every running function at once
Fail(res) == pc' = "done" /\ result' = res /\ stack' = <<>>

\* Ok(..): back to the caller, or the operation is over
ReturnOk ==
    IF stack = <<>>
    THEN pc' = "done" /\ result' = "Ok" /\ stack' = stack
    ELSE pc' = Head(stack) /\ stack' = Tail(stack) /\ result' = result

Goto(l) == pc' = l /\ stack' = stack /\ result' = result

\* continue at entry, and after it at the positions conts, in order
CallThen(entry, conts) == pc' = entry /\ stack' = conts \o stack /\ result' = result

\* i2c.write(addr, bytes), answered without a transport error
i2c_write(bytes, d) ==
    /\ chip' = ChipWrite(chip, bytes, d)
    /\ log' = Append(log, [k |-> "w", bytes |-> bytes, resp |-> <<>>])

\* i2c.write_read(addr, bytes, &mut resp), answered without a transport error
i2c_write_read(bytes, resp) ==
    /\ chip' = ChipAfterRead(chip, bytes[1])
    /\ log' = Append(log, [k |-> "wr", bytes |-> bytes, resp |-> resp])

\* delay.delay_ms(ms)
delay_ms(ms) ==
    /\ chip' = chip
    /\ log' = Append(log, [k |-> "delay", bytes |-> <<ms>>, resp |-> <<>>])

ControlRequest(subcommand) ==
    <<CONTROL, subcommand % 256, (subcommand \div 256) % 256>>

write_control(subcommand, d) == i2c_write(ControlRequest(subcommand), d)

write_command(command, data) == i2c_write(<<command, data>>, Never)

\* Partial reset
soft_reset == write_control(SOFT_RESET, Never)

\* Read the selected block checksum from the gauge, into the local dst
read_checksum(dst) ==
    \E g \in GlitchDeltas :
        LET resp == ChipResponse(chip, BLOCK_DATA_CHECKSUM, 1, g) IN
        /\ i2c_write_read(<<BLOCK_DATA_CHECKSUM>>, resp)
        /\ loc' = [loc EXCEPT ![dst] = resp[1]]

\* Moves the chip to CFGUP mode
mode_cfgupdate ==
    /\ pc = "cfg_set"
    /\ \E d \in Latencies : write_control(SET_CFGUPDATE, d)
    /\ loc' = [loc EXCEPT !.tries = 0]
    /\ Goto("wf_delay")
    /\ Frame

\* wait_flags as a mutated driver could run it: an exhausted poll budget falls
\* through to Ok
wait_flags_fallthrough ==
    \/ /\ pc = "wf_delay"
       /\ delay_ms(FLAG_POLL_DELAY_MS)
       /\ Goto("wf_poll")
       /\ UNCHANGED loc
       /\ Frame
    \/ /\ pc = "wf_poll"
       /\ LET resp == ChipResponse(chip, FLAGS, 2, 0)
              flags == from_bits_truncate(from_le_bytes(resp))
          IN  /\ i2c_write_read(<<FLAGS>>, resp)
              /\ loc' = [loc EXCEPT !.tries = loc.tries + 1]
              /\ IF contains(flags, CFGUPMODE) THEN ReturnOk
                 ELSE IF loc.tries + 1 < FLAG_POLL_RETRIES THEN Goto("wf_delay")
                 ELSE ReturnOk
       /\ Frame

\* wait_flags as a mutated driver could run it: only the first poll is delayed
wait_flags_one_delay ==
    \/ /\ pc = "wf_delay"
       /\ delay_ms(FLAG_POLL_DELAY_MS)
       /\ Goto("wf_poll")
       /\ UNCHANGED loc
       /\ Frame
    \/ /\ pc = "wf_poll"
       /\ LET resp == ChipResponse(chip, FLAGS, 2, 0)
              flags == from_bits_truncate(from_le_bytes(resp))
          IN  /\ i2c_write_read(<<FLAGS>>, resp)
              /\ loc' = [loc EXCEPT !.tries = loc.tries + 1]
              /\ IF contains(flags, CFGUPMODE) THEN ReturnOk
                 ELSE IF loc.tries + 1 < FLAG_POLL_RETRIES THEN Goto("wf_poll")
                 ELSE Fail("PollTimeout")
       /\ Frame

\* Waits for CFGUPMODE
wait_flags ==
    \/ /\ pc = "wf_delay"
       /\ delay_ms(FLAG_POLL_DELAY_MS)
       /\ Goto("wf_poll")
       /\ UNCHANGED loc
       /\ Frame
    \/ /\ pc = "wf_poll"
       /\ LET resp == ChipResponse(chip, FLAGS, 2, 0)
              flags == from_bits_truncate(from_le_bytes(resp))
          IN  /\ i2c_write_read(<<FLAGS>>, resp)
              /\ loc' = [loc EXCEPT !.tries = loc.tries + 1]
              /\ IF contains(flags, CFGUPMODE) THEN ReturnOk
                 ELSE IF loc.tries + 1 < FLAG_POLL_RETRIES THEN Goto("wf_delay")
                 ELSE Fail("PollTimeout")
       /\ Frame

\* memblock_prepare_op as a mutated driver could run it: no settle delay
memblock_prepare_op_no_settle ==
    \/ /\ pc = "prep_ctl"
       /\ write_command(BLOCK_DATA_CONTROL, 0)
       /\ Goto("prep_class")
       /\ UNCHANGED loc
       /\ Frame
    \/ /\ pc = "prep_class"
       /\ write_command(DATA_CLASS, loc.class)
       /\ Goto("prep_block")
       /\ UNCHANGED loc
       /\ Frame
    \/ /\ pc = "prep_block"
       /\ write_command(DATA_BLOCK, loc.at)
       /\ ReturnOk
       /\ UNCHANGED loc
       /\ Frame

\* Prepares for the read or write operation
memblock_prepare_op ==
    \/ /\ pc = "prep_ctl"
       /\ write_command(BLOCK_DATA_CONTROL, 0)
       /\ Goto("prep_class")
       /\ UNCHANGED loc
       /\ Frame
    \/ /\ pc = "prep_class"
       /\ write_command(DATA_CLASS, loc.class)
       /\ Goto("prep_block")
       /\ UNCHANGED loc
       /\ Frame
    \/ /\ pc = "prep_block"
       /\ write_command(DATA_BLOCK, loc.at)
       /\ Goto("prep_delay")
       /\ UNCHANGED loc
       /\ Frame
    \/ /\ pc = "prep_delay"
       /\ delay_ms(SETTLE_DELAY_MS)
       /\ ReturnOk
       /\ UNCHANGED loc
       /\ Frame

\* lib.rs memblock_read: the 32 bytes go into the caller's buffer `data`
memblock_read ==
    \/ /\ pc = "mr_csum"
       /\ read_checksum("checksum")
       /\ Goto("mr_data")
       /\ Frame
    \/ /\ pc = "mr_data"
       /\ LET resp == ChipResponse(chip, BLOCK_DATA, MEMBLOCK_SIZE, 0) IN
          /\ i2c_write_read(<<BLOCK_DATA>>, resp)
          /\ loc' = [loc EXCEPT !.data = AsBlock(resp)]
          /\ IF loc.checksum # calculate_block_checksum(AsBlock(resp))
             THEN Fail("Checksum")
             ELSE ReturnOk
       /\ Frame

\* MemoryBlock::checksum
MemoryBlock_checksum(raw) == 255 - SumFrom(raw, 0)

\* memory.rs memblock_read: the block is returned only with Ok
memory_memblock_read ==
    \/ /\ pc = "mmr_csum"
       /\ read_checksum("checksum")
       /\ Goto("mmr_data")
       /\ Frame
    \/ /\ pc = "mmr_data"
       /\ LET resp == ChipResponse(chip, BLOCK_DATA, MEMBLOCK_SIZE, 0) IN
          /\ i2c_write_read(<<BLOCK_DATA>>, resp)
          /\ IF loc.checksum # MemoryBlock_checksum(AsBlock(resp))
             THEN Fail("Checksum") /\ UNCHANGED loc
             ELSE ReturnOk /\ loc' = [loc EXCEPT !.data = AsBlock(resp)]
       /\ Frame

\* the data write as a mutated driver could issue it: the buffer is walked from
\* its end
block_data_request_reversed(data, index) ==
    <<BLOCK_DATA + index, data[MEMBLOCK_SIZE - 1 - index]>>

\* [commands::BLOCK_DATA + index as u8, *byte]
block_data_request(data, index) == <<BLOCK_DATA + index, data[index]>>

\* lib.rs memblock_write, on entry: the checksum of the outgoing buffer, then
\* mode_cfgupdate, memblock_prepare_op and the transfer
memblock_write_entry(l, n, st) ==
    /\ loc' = [l EXCEPT !.checksum = calculate_block_checksum(l.data),
                        !.mwFrom = n, !.index = 0]
    /\ pc' = "cfg_set"
    /\ stack' = <<"prep_ctl", "mw_setptr">> \o st

\* lib.rs memblock_write: the register pointer, the 32 bytes, the checksum, the
\* settle delay, the second memblock_prepare_op
memblock_write_transfer ==
    \/ /\ pc = "mw_setptr"
       /\ i2c_write(<<BLOCK_DATA>>, Never)
       /\ Goto("mw_data")
       /\ UNCHANGED loc
       /\ Frame
    \/ /\ pc = "mw_data"
       /\ i2c_write(block_data_request(loc.data, loc.index), Never)
       /\ loc' = [loc EXCEPT !.index = loc.index + 1]
       /\ IF loc.index + 1 < MEMBLOCK_SIZE THEN Goto("mw_data") ELSE Goto("mw_csum")
       /\ Frame
    \/ /\ pc = "mw_csum"
       /\ i2c_write(<<BLOCK_DATA_CHECKSUM, loc.checksum>>, Never)
       /\ Goto("mw_delay")
       /\ UNCHANGED loc
       /\ Frame
    \/ /\ pc = "mw_delay"
       /\ delay_ms(SETTLE_DELAY_MS)
       /\ CallThen("prep_ctl", <<"mw_readback">>)
       /\ UNCHANGED loc
       /\ Frame

\* the verification as a mutated driver could run it: a mismatch returns before
\* the soft reset
memblock_write_verify_early_return ==
    \/ /\ pc = "mw_readback"
       /\ read_checksum("chip_checksum")
       /\ Goto("mw_reset")
       /\ Frame
    \/ /\ pc = "mw_reset"
       /\ loc.checksum = loc.chip_checksum
       /\ soft_reset
       /\ ReturnOk
       /\ UNCHANGED loc
       /\ Frame
    \/ /\ pc = "mw_reset"
       /\ loc.checksum # loc.chip_checksum
       /\ Fail("Checksum")
       /\ UNCHANGED <<chip, log, loc>>
       /\ Frame

\* the verification as a mutated driver could run it: the checksum read back is
\* not compared
memblock_write_verify_unchecked ==
    \/ /\ pc = "mw_readback"
       /\ read_checksum("chip_checksum")
       /\ Goto("mw_reset")
       /\ Frame
    \/ /\ pc = "mw_reset"
       /\ soft_reset
       /\ ReturnOk
       /\ UNCHANGED loc
       /\ Frame

\* lib.rs memblock_write: the chip's checksum is read back, the chip is reset,
\* and the two checksums decide the result
memblock_write_verify ==
    \/ /\ pc = "mw_readback"
       /\ read_checksum("chip_checksum")
       /\ Goto("mw_reset")
       /\ Frame
    \/ /\ pc = "mw_reset"
       /\ soft_reset
       /\ IF loc.checksum = loc.chip_checksum THEN ReturnOk ELSE Fail("Checksum")
       /\ UNCHANGED loc
       /\ Frame

memblock_write == memblock_write_transfer \/ memblock_write_verify

\* memory.rs memblock_write, on entry: mode_cfgupdate, memblock_prepare_op
memory_memblock_write_entry(l, n, st) ==
    /\ loc' = [l EXCEPT !.mwFrom = n, !.index = 0]
    /\ pc' = "cfg_set"
    /\ stack' = <<"prep_ctl", "mmw_data">> \o st

\* memory.rs memblock_write: the 32 bytes, the checksum, the settle delay, the
\* second memblock_prepare_op
memory_memblock_write_transfer ==
    \/ /\ pc = "mmw_data"
       /\ i2c_write(<<BLOCK_DATA + loc.index, loc.data[loc.index]>>, Never)
       /\ loc' = [loc EXCEPT !.index = loc.index + 1]
       /\ IF loc.index + 1 < MEMBLOCK_SIZE THEN Goto("mmw_data") ELSE Goto("mmw_csum")
       /\ Frame
    \/ /\ pc = "mmw_csum"
       /\ i2c_write(<<BLOCK_DATA_CHECKSUM, MemoryBlock_checksum(loc.data)>>, Never)
       /\ loc' = [loc EXCEPT !.checksum = MemoryBlock_checksum(loc.data)]
       /\ Goto("mmw_delay")
       /\ Frame
    \/ /\ pc = "mmw_delay"
       /\ delay_ms(SETTLE_DELAY_MS)
       /\ CallThen("prep_ctl", <<"mmw_readback">>)
       /\ UNCHANGED loc
       /\ Frame

\* memory.rs memblock_write: read back, reset, compare
memory_memblock_write_verify ==
    \/ /\ pc = "mmw_readback"
       /\ read_checksum("chip_checksum")
       /\ Goto("mmw_reset")
       /\ Frame
    \/ /\ pc = "mmw_reset"
       /\ soft_reset
       /\ IF loc.checksum = loc.chip_checksum THEN ReturnOk ELSE Fail("Checksum")
       /\ UNCHANGED loc
       /\ Frame

memory_memblock_write == memory_memblock_write_transfer \/ memory_memblock_write_verify

\* set_programmed_capacity, after its memblock_read returned Ok
set_programmed_capacity ==
    /\ pc = "spc_write"
    /\ memblock_write_entry(
           [loc EXCEPT !.data = BigEndian_write_u16(loc.data, 6, op.capacity)],
           Len(log), stack)
    /\ UNCHANGED <<chip, log, result>>
    /\ Frame

\* get_programmed_capacity, after its memblock_read returned Ok
get_programmed_capacity ==
    /\ pc = "gpc_ret"
    /\ loc' = [loc EXCEPT !.value = BigEndian_read_u16(loc.data, 6)]
    /\ ReturnOk
    /\ UNCHANGED <<chip, log>>
    /\ Frame

\* check_bq27427_errata, after its memblock_read returned Ok
check_bq27427_errata ==
    /\ pc = "ce_fix"
    /\ memblock_write_entry(
           IF BitAnd(loc.data[5], SIGN_BIT) # 0
           THEN [loc EXCEPT !.data[5] = BitAnd(loc.data[5], BitNot8(SIGN_BIT))]
           ELSE loc,
           Len(log), stack)
    /\ UNCHANGED <<chip, log, result>>
    /\ Frame

\* the checksum write as a mutated driver could issue it: the checksum read is
\* written back as it is
errata_checksum_stale(checksum) == checksum

\* the checksum write as a mutated driver could compute it: the bit is cleared,
\* not flipped
errata_checksum_cleared(checksum) == BitAnd(checksum, BitNot8(SIGN_BIT))

\* checksum ^ SIGN_BIT
errata_checksum(checksum) == BitXor(checksum, SIGN_BIT)

\* check_fix_bq27427_errata, after its memblock_prepare_op
check_fix_bq27427_errata ==
    \/ /\ pc = "cf_sign"
       /\ LET resp == ChipResponse(chip, SIGN_BYTE_OFFSET, 1, 0) IN
          /\ i2c_write_read(<<SIGN_BYTE_OFFSET>>, resp)
          /\ loc' = [loc EXCEPT !.sign = resp[1]]
          /\ IF BitAnd(resp[1], SIGN_BIT) > 0 THEN Goto("cf_csum") ELSE ReturnOk
       /\ Frame
    \/ /\ pc = "cf_csum"
       /\ read_checksum("checksum")
       /\ CallThen("cfg_set", <<"cf_write">>)
       /\ Frame
    \/ /\ pc = "cf_write"
       /\ i2c_write(<<SIGN_BYTE_OFFSET, BitXor(loc.sign, SIGN_BIT)>>, Never)
       /\ Goto("cf_wcsum")
       /\ UNCHANGED loc
       /\ Frame
    \/ /\ pc = "cf_wcsum"
       /\ i2c_write(<<BLOCK_DATA_CHECKSUM, errata_checksum(loc.checksum)>>, Never)
       /\ Goto("cf_reset")
       /\ UNCHANGED loc
       /\ Frame
    \/ /\ pc = "cf_reset"
       /\ soft_reset
       /\ ReturnOk
       /\ UNCHANGED loc
       /\ Frame

ChemSubcommand(id) ==
    IF id = "A4350" THEN CHEM_A ELSE IF id = "B4200" THEN CHEM_B ELSE CHEM_C

\* write_chem_id as a mutated driver could run it: no soft reset after the
\* chemistry subcommand
write_chem_id_no_reset ==
    \/ /\ pc = "wc_chem"
       /\ op.id = "Unknown"
       /\ Fail("panic")
       /\ UNCHANGED <<chip, log, loc>>
       /\ Frame
    \/ /\ pc = "wc_chem"
       /\ op.id # "Unknown"
       /\ write_control(ChemSubcommand(op.id), Never)
       /\ ReturnOk
       /\ UNCHANGED loc
       /\ Frame

\* write_chem_id, after its mode_cfgupdate
write_chem_id ==
    \/ /\ pc = "wc_chem"
       /\ op.id = "Unknown"
       /\ Fail("panic")
       /\ UNCHANGED <<chip, log, loc>>
       /\ Frame
    \/ /\ pc = "wc_chem"
       /\ op.id # "Unknown"
       /\ write_control(ChemSubcommand(op.id), Never)
       /\ Goto("wc_reset")
       /\ UNCHANGED loc
       /\ Frame
    \/ /\ pc = "wc_reset"
       /\ soft_reset
       /\ ReturnOk
       /\ UNCHANGED loc
       /\ Frame

\* the 16-bit words the chip answers a command or control read with
BusWords == {1057, 1063, 65535}

\* one write-then-read of the opcode for 2 bytes
read_command ==
    /\ pc = "rcmd_read"
    /\ \E w \in BusWords :
          LET response == <<w % 256, w \div 256>> IN
          /\ i2c_write_read(<<loc.command>>, response)
          /\ loc' = [loc EXCEPT !.value = from_le_bytes(response)]
    /\ ReturnOk
    /\ Frame

\* the 3-byte request, then one write-then-read of CONTROL for 2 bytes
read_control ==
    \/ /\ pc = "rc_write"
       /\ i2c_write(ControlRequest(loc.command), Never)
       /\ Goto("rc_read")
       /\ UNCHANGED loc
       /\ Frame
    \/ /\ pc = "rc_read"
       /\ \E w \in BusWords :
             LET response == <<w % 256, w \div 256>> IN
             /\ i2c_write_read(<<CONTROL>>, response)
             /\ loc' = [loc EXCEPT !.value = from_le_bytes(response)]
       /\ ReturnOk
       /\ Frame

\* ChipType::from(response)
ChipType_from(code) ==
    IF code = 1057 THEN "BQ27421"
    ELSE IF code = 1062 THEN "BQ27426"
    ELSE IF code = 1063 THEN "BQ27427"
    ELSE "Unknown"

\* probe as a mutated driver could run it: the errata check runs for every type
probe_ungated ==
    /\ pc = "pr_decode"
    /\ loc' = [loc EXCEPT !.device_type = ChipType_from(loc.value),
                          !.class = SUBCLASS_CC_CAL, !.at = 0]
    /\ CallThen("prep_ctl", <<"mr_csum", "ce_fix">>)
    /\ UNCHANGED <<chip, log>>
    /\ Frame

\* probe, after its read_control(DEVICE_TYPE)
probe ==
    /\ pc = "pr_decode"
    /\ LET device_type == ChipType_from(loc.value) IN
       IF device_type = "BQ27427"
       THEN /\ loc' = [loc EXCEPT !.device_type = device_type,
                                  !.class = SUBCLASS_CC_CAL, !.at = 0]
            /\ CallThen("prep_ctl", <<"mr_csum", "ce_fix">>)
       ELSE /\ loc' = [loc EXCEPT !.device_type = device_type]
            /\ ReturnOk
    /\ UNCHANGED <<chip, log>>
    /\ Frame

(***************************************************************************)
(* A transport error: the `?` after every bus transaction returns it from  *)
(* every running function at once.  The chip has not seen the transaction. *)
(***************************************************************************)
BusPcs ==
    {"cfg_set", "wf_poll", "prep_ctl", "prep_class", "prep_block",
     "mr_csum", "mr_data", "mmr_csum", "mmr_data",
     "mw_setptr", "mw_data", "mw_csum", "mw_readback", "mw_reset",
     "mmw_data", "mmw_csum", "mmw_readback", "mmw_reset",
     "cf_sign", "cf_csum", "cf_write", "cf_wcsum", "cf_reset",
     "wc_chem", "wc_reset", "rcmd_read", "rc_write", "rc_read"}

\* a transport error as a mutated driver could treat it: the transaction is
\* tried again
TransportError_retried ==
    /\ pc \in BusPcs
    /\ ~(pc = "wc_chem" /\ op.id = "Unknown")
    /\ Len(log) < 3
    /\ log' = Append(log, [k |-> "err", bytes |-> <<>>, resp |-> <<>>])
    /\ UNCHANGED <<chip, loc, pc, stack, result>>
    /\ Frame

TransportError ==
    /\ pc \in BusPcs
    /\ ~(pc = "wc_chem" /\ op.id = "Unknown")
    /\ log' = Append(log, [k |-> "err", bytes |-> <<>>, resp |-> <<>>])
    /\ Fail("I2CError")
    /\ UNCHANGED <<chip, loc>>
    /\ Frame

(***************************************************************************)
(* The caller: one operation at a time, each from the state the last left. *)
(***************************************************************************)
WriteData ==
    {[DefaultBlock EXCEPT ![0] = 1, ![5] = 130, ![31] = 2],
     [DefaultBlock EXCEPT ![0] = 2, ![5] = 130, ![31] = 1]}

\* the blocks the caller reads and writes directly
Targets == {<<SUBCLASS_CC_CAL, 0>>, <<SUBCLASS_CC_CAL, 1>>}

Capacities == {1200, 258}

ChemIds == {"A4350", "B4200", "C4400", "Unknown"}

\* a panic ends the program
CanCall == left > 0 /\ pc \in {"idle", "done"} /\ result # "panic"

Begin(o, l) ==
    /\ CanCall
    /\ op' = [o EXCEPT !.mem0 = chip.mem, !.cfgup0 = chip.cfgup]
    /\ prev' = IF pc = "idle" THEN NoPrev
                ELSE [op |-> [op EXCEPT !.mem0 = <<>>, !.id = "none", !.cfgup0 = FALSE],
                      result |-> result,
                      sign0 |-> (op.mem0[<<SUBCLASS_CC_CAL, 0>>][5] \div SIGN_BIT) % 2 = 1]
    /\ left' = left - 1
    /\ log' = <<>>
    /\ result' = "none"
    /\ chip' = chip

Call_memblock_write ==
    \E k \in Targets, d \in WriteData :
        /\ Begin([NoOp EXCEPT !.name = "memblock_write", !.class = k[1],
                              !.at = k[2], !.data = d], NoLoc)
        /\ memblock_write_entry(
               [NoLoc EXCEPT !.class = k[1], !.at = k[2], !.data = d], 0, <<>>)

Call_memory_memblock_write ==
    \E k \in Targets, d \in WriteData :
        /\ Begin([NoOp EXCEPT !.name = "memory_memblock_write", !.class = k[1],
                              !.at = k[2], !.data = d], NoLoc)
        /\ memory_memblock_write_entry(
               [NoLoc EXCEPT !.class = k[1], !.at = k[2], !.data = d], 0, <<>>)

Call_memblock_read ==
    \E k \in Targets :
        /\ Begin([NoOp EXCEPT !.name = "memblock_read", !.class = k[1],
                              !.at = k[2]], NoLoc)
        /\ loc' = [NoLoc EXCEPT !.class = k[1], !.at = k[2]]
        /\ pc' = "prep_ctl"
        /\ stack' = <<"mr_csum">>

Call_memory_memblock_read ==
    \E k \in Targets :
        /\ Begin([NoOp EXCEPT !.name = "memory_memblock_read", !.class = k[1],
                              !.at = k[2]], NoLoc)
        /\ loc' = [NoLoc EXCEPT !.class = k[1], !.at = k[2]]
        /\ pc' = "prep_ctl"
        /\ stack' = <<"mmr_csum">>

Call_set_programmed_capacity ==
    \E capacity \in Capacities :
        /\ Begin([NoOp EXCEPT !.name = "set_programmed_capacity",
                              !.capacity = capacity], NoLoc)
        /\ loc' = [NoLoc EXCEPT !.class = SUBCLASS_STATE, !.at = 0]
        /\ pc' = "prep_ctl"
        /\ stack' = <<"mr_csum", "spc_write">>

Call_get_programmed_capacity ==
    /\ Begin([NoOp EXCEPT !.name = "get_programmed_capacity"], NoLoc)
    /\ loc' = [NoLoc EXCEPT !.class = SUBCLASS_STATE, !.at = 0]
    /\ pc' = "prep_ctl"
    /\ stack' = <<"mr_csum", "gpc_ret">>

Call_check_bq27427_errata ==
    /\ Begin([NoOp EXCEPT !.name = "check_bq27427_errata"], NoLoc)
    /\ loc' = [NoLoc EXCEPT !.class = SUBCLASS_CC_CAL, !.at = 0]
    /\ pc' = "prep_ctl"
    /\ stack' = <<"mr_csum", "ce_fix">>

Call_check_fix_bq27427_errata ==
    /\ Begin([NoOp EXCEPT !.name = "check_fix_bq27427_errata"], NoLoc)
    /\ loc' = [NoLoc EXCEPT !.class = SUBCLASS_CC_CAL, !.at = 0]
    /\ pc' = "prep_ctl"
    /\ stack' = <<"cf_sign">>

Call_write_chem_id ==
    \E id \in ChemIds :
        /\ Begin([NoOp EXCEPT !.name = "write_chem_id", !.id = id], NoLoc)
        /\ loc' = NoLoc
        /\ pc' = "cfg_set"
        /\ stack' = <<"wc_chem">>

Call_voltage ==
    /\ Begin([NoOp EXCEPT !.name = "voltage"], NoLoc)
    /\ loc' = [NoLoc EXCEPT !.command = VOLTAGE]
    /\ pc' = "rcmd_read"
    /\ stack' = <<>>

Call_fw_version ==
    /\ Begin([NoOp EXCEPT !.name = "fw_version"], NoLoc)
    /\ loc' = [NoLoc EXCEPT !.command = FW_VERSION]
    /\ pc' = "rc_write"
    /\ stack' = <<>>

Call_probe ==
    /\ Begin([NoOp EXCEPT !.name = "probe"], NoLoc)
    /\ loc' = [NoLoc EXCEPT !.command = DEVICE_TYPE]
    /\ pc' = "rc_write"
    /\ stack' = <<"pr_decode">>

\* the chip as the driver can find it, and a caller that runs n operations
InitWith(n, modes) ==
    /\ \E b5 \in GainBytes, f \in FlagBases, m \in modes :
          chip = [mem |-> InitMem(b5), sel_class |-> SUBCLASS_STATE, sel_block |-> 0,
                  window |-> StateBlock0, cfgup |-> m, wait |-> Never,
                  flags |-> f]
    /\ log = <<>>
    /\ pc = "idle"
    /\ stack = <<>>
    /\ loc = NoLoc
    /\ result = "none"
    /\ op = NoOp
    /\ prev = NoPrev
    /\ left = n

\* one operation, with transport errors, on a chip in either mode
Init == InitWith(1, BOOLEAN)

\* MaxOps operations in succession, on a bus without transport errors, from a
\* chip in Normal mode
InitSeq == InitWith(MaxOps, {FALSE})

Driver ==
    \/ Call_memblock_write
    \/ Call_memory_memblock_write
    \/ Call_memblock_read
    \/ Call_memory_memblock_read
    \/ Call_set_programmed_capacity
    \/ Call_get_programmed_capacity
    \/ Call_check_bq27427_errata
    \/ Call_check_fix_bq27427_errata
    \/ Call_write_chem_id
    \/ mode_cfgupdate
    \/ wait_flags
    \/ memblock_prepare_op
    \/ memblock_read
    \/ memory_memblock_read
    \/ memblock_write
    \/ memory_memblock_write
    \/ set_programmed_capacity
    \/ get_programmed_capacity
    \/ check_bq27427_errata
    \/ check_fix_bq27427_errata
    \/ write_chem_id

\* the command reads and the probe
Commands ==
    \/ Call_voltage
    \/ Call_fw_version
    \/ Call_probe
    \/ read_command
    \/ read_control
    \/ probe

Next == Driver \/ Commands \/ TransportError

Spec == Init /\ [][Next]_vars

SpecSeq == InitSeq /\ [][Driver]_vars

(***************************************************************************)
(* The pure functions of the driver, each applied to inputs drawn from     *)
(* bounded sets: a 32-byte buffer in loc.data, a raw FLAGS word in         *)
(* loc.value.                                                              *)
(***************************************************************************)
ByteSamples == {0, 1, 127, 128, 255}

FillSamples == {0, 9}

\* buffers: bytes 0, 5 and 31 from ByteSamples, every other byte the same fill
PureBlocks ==
    {[i \in 0..(MEMBLOCK_SIZE - 1) |->
        IF i = 0 THEN a ELSE IF i = 5 THEN b ELSE IF i = 31 THEN c ELSE f] :
            a \in ByteSamples, b \in ByteSamples, c \in ByteSamples, f \in FillSamples}

\* raw FLAGS words: with and without CFGUPMODE, with and without bits 10..13
RawFlags == {0, 8, 16, 1024, 1040, 15368, 15384, 65535}

InitPure ==
    /\ chip = [mem |-> InitMem(5), sel_class |-> SUBCLASS_STATE, sel_block |-> 0,
               window |-> StateBlock0, cfgup |-> FALSE, wait |-> Never, flags |-> 8]
    /\ log = <<>>
    /\ pc = "idle"
    /\ stack = <<>>
    /\ \E block \in PureBlocks, raw \in RawFlags :
          loc = [NoLoc EXCEPT !.data = block, !.value = raw]
    /\ result = "none"
    /\ op = NoOp
    /\ prev = NoPrev
    /\ left = 0

PureStep(l, next) ==
    /\ left = 0
    /\ loc' = l
    /\ pc' = next
    /\ UNCHANGED <<chip, log, stack, result, op, prev, left>>

\* self.calculate_block_checksum(data)
Apply_calculate_block_checksum ==
    /\ pc = "idle"
    /\ PureStep([loc EXCEPT !.checksum = calculate_block_checksum(loc.data)], "pure_lib")

\* block.checksum()
Apply_MemoryBlock_checksum ==
    /\ pc = "idle"
    /\ PureStep([loc EXCEPT !.checksum = MemoryBlock_checksum(loc.data)], "pure_mem")

\* the checksum of the same buffer, computed once more
Apply_checksum_again ==
    \/ /\ pc = "pure_lib"
       /\ PureStep([loc EXCEPT !.chip_checksum = calculate_block_checksum(loc.data)],
                   "pure_again")
    \/ /\ pc = "pure_mem"
       /\ PureStep([loc EXCEPT !.chip_checksum = MemoryBlock_checksum(loc.data)],
                   "pure_again")

\* check_fix_bq27427_errata on a block whose stored checksum is that of its
\* bytes: the sign byte and the checksum it writes
Apply_check_fix_bq27427_errata ==
    /\ pc = "idle"
    /\ BitAnd(loc.data[5], SIGN_BIT) > 0
    /\ PureStep([loc EXCEPT
                    !.sign = loc.data[5],
                    !.data[5] = BitXor(loc.data[5], SIGN_BIT),
                    !.checksum = errata_checksum(255 - SumFrom(loc.data, 0))],
                "pure_fix")

\* get_flags on the raw word read_command returned
Apply_get_flags ==
    /\ pc = "idle"
    /\ PureStep([loc EXCEPT !.flags = from_bits_truncate(loc.value)], "pure_flags")

NextPure ==
    \/ Apply_calculate_block_checksum
    \/ Apply_MemoryBlock_checksum
    \/ Apply_checksum_again
    \/ Apply_check_fix_bq27427_errata
    \/ Apply_get_flags

SpecPure == InitPure /\ [][NextPure]_vars

(***************************************************************************)
(* Reading the bus log.                                                    *)
(***************************************************************************)
DataRegs == BLOCK_DATA..(BLOCK_DATA + MEMBLOCK_SIZE - 1)

SelectorRegs == {BLOCK_DATA_CONTROL, DATA_CLASS, DATA_BLOCK}

IsRegWrite(e, regs) == e.k = "w" /\ Len(e.bytes) = 2 /\ e.bytes[1] \in regs

IsControl(e, sub) == e.k = "w" /\ e.bytes = ControlRequest(sub)

IsFlagsRead(e) == e.k = "wr" /\ e.bytes = <<FLAGS>>

ShowsCfgup(e) == (from_le_bytes(e.resp) \div CFGUPMODE) % 2 = 1

IsChecksumRead(e) == e.k = "wr" /\ e.bytes = <<BLOCK_DATA_CHECKSUM>>

IsBlockRead(e) == e.k = "wr" /\ e.bytes = <<BLOCK_DATA>>

IsDelay(e, ms) == e.k = "delay" /\ e.bytes = <<ms>>

LogIdx == 1..Len(log)

SetCfgIdx == {i \in LogIdx : IsControl(log[i], SET_CFGUPDATE)}

SoftResetIdx == {i \in LogIdx : IsControl(log[i], SOFT_RESET)}

FlagsIdx == {i \in LogIdx : IsFlagsRead(log[i])}

CfgupSeenIdx == {i \in FlagsIdx : ShowsCfgup(log[i])}

ConfigWriteIdx == {i \in LogIdx : IsRegWrite(log[i], DataRegs \cup {BLOCK_DATA_CHECKSUM})}

\* memblock_write has been entered in this operation
InWrite == loc.mwFrom >= 0

\* the part of the log memblock_write produced
WriteIdx == {i \in LogIdx : InWrite /\ i > loc.mwFrom}

\* every poll of the budget was answered with CFGUPMODE clear
PollsExhausted ==
    /\ Cardinality(FlagsIdx) = FLAG_POLL_RETRIES
    /\ CfgupSeenIdx = {}

Done == pc = "done"

(***************************************************************************)
(* C1.  Mode gating on timeout: when all 10 flag polls of memblock_write   *)
(* show CFGUPMODE clear, memblock_write returns PollTimeout and has issued *)
(* no write to a block-data register, to the checksum register or to a     *)
(* block selector register.                                                *)
(***************************************************************************)
C1_TimeoutWritesNothing ==
    (InWrite /\ PollsExhausted) =>
        /\ Done
        /\ result = "PollTimeout"
        /\ \A i \in WriteIdx :
              ~IsRegWrite(log[i], DataRegs \cup {BLOCK_DATA_CHECKSUM} \cup SelectorRegs)

C1_Witness ==
    /\ Done
    /\ op.name \in {"memblock_write", "memory_memblock_write"}
    /\ PollsExhausted
    /\ result = "PollTimeout"

(***************************************************************************)
(* C2.  Configuration writes cannot bypass ConfigUpdate mode: every write  *)
(* to a block-data byte or to the checksum register comes, in the same     *)
(* operation, after a SET_CFGUPDATE and a later FLAGS read that showed     *)
(* CFGUPMODE, with no SOFT_RESET between the SET_CFGUPDATE and the write.  *)
(***************************************************************************)
C2_WritesOnlyInConfigUpdate ==
    \A i \in ConfigWriteIdx :
        \E j \in SetCfgIdx, k \in CfgupSeenIdx :
            /\ j < k
            /\ k < i
            /\ \A m \in SoftResetIdx : ~(j < m /\ m < i)

C2_Witness ==
    /\ Done
    /\ op.name = "check_fix_bq27427_errata"
    /\ \E i \in ConfigWriteIdx : log[i].bytes[1] = BLOCK_DATA_CHECKSUM

(***************************************************************************)
(* C3.  A block write that reaches the write-back check, whether it ends   *)
(* Ok or Checksum, has issued exactly one SOFT_RESET, and that SOFT_RESET  *)
(* is the last bus transaction of the operation.                           *)
(***************************************************************************)
C3_OneSoftResetLast ==
    (Done /\ InWrite /\ result \in {"Ok", "Checksum"}) =>
        /\ Cardinality(SoftResetIdx \cap WriteIdx) = 1
        /\ IsControl(log[Len(log)], SOFT_RESET)

C3_Witness ==
    /\ Done
    /\ InWrite
    /\ result = "Checksum"
    /\ IsControl(log[Len(log)], SOFT_RESET)

(***************************************************************************)
(* C4.  A write attempt never leaves the chip in configuration mode:       *)
(* whenever memblock_write, started on a chip in Normal mode, has sent     *)
(* SET_CFGUPDATE and returns (Ok, Checksum, PollTimeout or a transport     *)
(* error), the chip is in Normal mode.                                     *)
(***************************************************************************)
C4_ReturnsInNormalMode ==
    (Done /\ InWrite /\ ~op.cfgup0 /\ SetCfgIdx \cap WriteIdx # {}) => ~chip.cfgup

(***************************************************************************)
(* C5.  Write-back verification.  The checksum read back is the answer to  *)
(* the checksum-register read that follows the checksum write.             *)
(***************************************************************************)
ChecksumWriteIdx == {i \in WriteIdx : IsRegWrite(log[i], {BLOCK_DATA_CHECKSUM})}

ReadBackIdx ==
    {i \in WriteIdx : IsChecksumRead(log[i]) /\ \E j \in ChecksumWriteIdx : j < i}

\* the checksum of the outgoing buffer
LocalChecksum == 255 - SumFrom(loc.data, 0)

\* the read-back checksum equals the local one
ReadBackMatches == \A i \in ReadBackIdx : log[i].resp[1] = LocalChecksum

\* C5 as claimed: memblock_write returns Ok only if the checksum read back equals
\* the local one, and returns Checksum if the two differ.
C5_AsClaimed ==
    (Done /\ InWrite) =>
        /\ result = "Ok" => (ReadBackIdx # {} /\ ReadBackMatches)
        /\ (ReadBackIdx # {} /\ ~ReadBackMatches) => result = "Checksum"

\* C5 as amended: memblock_write returns Ok only if the checksum read back equals
\* the local one; if the two differ it returns Checksum when the SOFT_RESET that
\* follows was written, and the transport error of that SOFT_RESET otherwise.
C5_WriteBackVerified ==
    (Done /\ InWrite) =>
        /\ result = "Ok" => (ReadBackIdx # {} /\ ReadBackMatches)
        /\ (ReadBackIdx # {} /\ ~ReadBackMatches) =>
              IF log[Len(log)].k = "err" THEN result = "I2CError"
              ELSE result = "Checksum" /\ IsControl(log[Len(log)], SOFT_RESET)

C5_Witness ==
    /\ Done
    /\ InWrite
    /\ ReadBackIdx # {}
    /\ ~ReadBackMatches
    /\ result = "Checksum"

(***************************************************************************)
(* C6.  When the checksum the chip reports differs from the checksum of    *)
(* the 32 bytes read, memblock_read returns Checksum, the caller's buffer  *)
(* does not hold the 32 bytes read, and the read is not retried.           *)
(***************************************************************************)
BlockReadIdx == {i \in LogIdx : IsBlockRead(log[i])}

ReadMismatch ==
    /\ BlockReadIdx # {}
    /\ \E i \in BlockReadIdx, j \in LogIdx :
          /\ IsChecksumRead(log[j])
          /\ j < i
          /\ log[j].resp[1] # 255 - SumFrom(AsBlock(log[i].resp), 0)

C6_MismatchHidesData ==
    (Done /\ op.name \in {"memblock_read", "memory_memblock_read"} /\ ReadMismatch) =>
        /\ result = "Checksum"
        /\ \A i \in BlockReadIdx : loc.data # AsBlock(log[i].resp)
        /\ Cardinality(BlockReadIdx) = 1
        /\ Cardinality({i \in LogIdx : IsChecksumRead(log[i])}) = 1

(***************************************************************************)
(* C7.  Block round-trip: when memblock_write(subclass, index, buffer)     *)
(* returned Ok and the next operation is memblock_read(subclass, index)    *)
(* and returns Ok, the bytes read are the buffer written.                  *)
(***************************************************************************)
WriteNames == {"memblock_write", "memory_memblock_write"}

ReadNames == {"memblock_read", "memory_memblock_read"}

ReadAfterWrite ==
    /\ Done
    /\ op.name \in ReadNames
    /\ result = "Ok"
    /\ prev.op.name \in WriteNames
    /\ prev.result = "Ok"
    /\ prev.op.class = op.class
    /\ prev.op.at = op.at

C7_RoundTrip == ReadAfterWrite => loc.data = prev.op.data

C7_Witness ==
    /\ ReadAfterWrite
    /\ prev.op.name = "memblock_write"
    /\ loc.data = prev.op.data
    /\ loc.data # op.mem0[<<op.class, op.at>>] \/ loc.data \in WriteData

(***************************************************************************)
(* C8.  Errata idempotence: after a run of the errata patcher that found   *)
(* the gain sign bit set and returned Ok, a second run, which finds the    *)
(* bit clear, issues no SET_CFGUPDATE, no data or checksum write and no    *)
(* SOFT_RESET.                                                             *)
(***************************************************************************)
ErrataNames == {"check_bq27427_errata", "check_fix_bq27427_errata"}

CcCalKey == <<SUBCLASS_CC_CAL, 0>>

SignSet(block) == (block[5] \div SIGN_BIT) % 2 = 1

SecondErrataRun ==
    /\ op.name \in ErrataNames
    /\ prev.op.name = op.name
    /\ prev.result = "Ok"
    /\ prev.sign0
    /\ ~SignSet(op.mem0[CcCalKey])

C8_SecondRunWritesNothing ==
    SecondErrataRun =>
        /\ SetCfgIdx = {}
        /\ ConfigWriteIdx = {}
        /\ SoftResetIdx = {}

(***************************************************************************)
(* C9.  The two errata remediations are equivalent: started on a chip in   *)
(* Normal mode whose gain sign bit is set, and run without a transport     *)
(* error, the register-path fix and the block read-modify-write fix leave  *)
(* the same chip state.  For either of them: when the chip answered the    *)
(* first checksum read with the stored checksum and raised CFGUPMODE,      *)
(* CC_CAL block 0 has byte 5 bit 7 cleared and nothing else changed;       *)
(* otherwise the memory is as it was; and the chip is in Normal mode.      *)
(***************************************************************************)
SignCleared(block) == [block EXCEPT ![5] = block[5] - SIGN_BIT]

ChecksumReadIdx == {i \in LogIdx : IsChecksumRead(log[i])}

\* the chip answered the first checksum read of the operation with the checksum
\* of the block as stored
FirstChecksumTrue ==
    /\ ChecksumReadIdx # {}
    /\ \A i \in ChecksumReadIdx :
          (\A j \in ChecksumReadIdx : i <= j) =>
              log[i].resp[1] = 255 - SumFrom(op.mem0[CcCalKey], 0)

ErrataRan ==
    /\ Done
    /\ op.name \in ErrataNames
    /\ result # "I2CError"
    /\ ~op.cfgup0
    /\ SignSet(op.mem0[CcCalKey])

C9_SameEndState ==
    ErrataRan =>
        /\ chip.mem =
              IF FirstChecksumTrue /\ CfgupSeenIdx # {}
              THEN [op.mem0 EXCEPT ![CcCalKey] = SignCleared(op.mem0[CcCalKey])]
              ELSE op.mem0
        /\ ~chip.cfgup

C9_Witness ==
    /\ ErrataRan
    /\ op.name = "check_fix_bq27427_errata"
    /\ result = "Ok"
    /\ chip.mem[CcCalKey] = SignCleared(op.mem0[CcCalKey])
    /\ chip.mem # op.mem0

(***************************************************************************)
(* C10.  Mode entry is a bounded poll that never resends the command: one  *)
(* SET_CFGUPDATE, then at most 10 FLAGS reads, each right after a 500 ms   *)
(* delay; the poll goes on exactly while the reads show CFGUPMODE clear,   *)
(* ends with Ok at the first read that shows it and with PollTimeout after *)
(* 10 reads that do not.                                                   *)
(***************************************************************************)
Polling == pc \in {"wf_delay", "wf_poll"}

C10_BoundedPoll ==
    /\ Cardinality(SetCfgIdx) <= 1
    /\ \A i \in FlagsIdx : \E j \in SetCfgIdx : j < i
    /\ Cardinality(FlagsIdx) <= FLAG_POLL_RETRIES
    /\ \A i \in FlagsIdx : i > 1 /\ IsDelay(log[i - 1], FLAG_POLL_DELAY_MS)
    /\ \A i \in CfgupSeenIdx : \A j \in FlagsIdx : j <= i
    /\ CfgupSeenIdx # {} => (~Polling /\ result # "PollTimeout")
    /\ result = "PollTimeout" <=> PollsExhausted
    /\ (FlagsIdx # {} /\ CfgupSeenIdx = {} /\ ~PollsExhausted /\ result # "I2CError")
          => Polling

C10_Witness ==
    /\ Cardinality(FlagsIdx) = 2
    /\ Cardinality(CfgupSeenIdx) = 1
    /\ ~Polling
    /\ result # "I2CError"

(***************************************************************************)
(* C11.  Transport failures are never retried and propagate immediately:   *)
(* a transport error is the last entry of the operation's bus log, the     *)
(* operation is over with I2CError, and I2CError is returned for no other  *)
(* reason; a transport error during a flag poll ends mode entry with       *)
(* I2CError and leaves the remaining polls unused.                         *)
(***************************************************************************)
ErrIdx == {i \in LogIdx : log[i].k = "err"}

C11_ErrorEndsOperation ==
    /\ Cardinality(ErrIdx) <= 1
    /\ \A i \in ErrIdx : i = Len(log) /\ Done /\ result = "I2CError"
    /\ result = "I2CError" => ErrIdx # {}

\* a flag poll failed on the bus with polls of the budget left
C11_Witness ==
    /\ Done
    /\ result = "I2CError"
    /\ Len(log) >= 4
    /\ log[Len(log)].k = "err"
    /\ IsDelay(log[Len(log) - 1], FLAG_POLL_DELAY_MS)
    /\ Cardinality(FlagsIdx) = 1
    /\ CfgupSeenIdx = {}

(***************************************************************************)
(* C12.  Block window selection order: the selector writes come only as    *)
(* the group [BLOCK_DATA_CONTROL, 0], [DATA_CLASS, subclass],              *)
(* [DATA_BLOCK, block index], in this order and with nothing in between,   *)
(* followed at once by the 5 ms delay; every access to the checksum        *)
(* register or to a block-data register comes after a completed group and  *)
(* its delay.                                                              *)
(***************************************************************************)
IsErr(e) == e.k = "err"

IsSelControl(e) == e.k = "w" /\ e.bytes = <<BLOCK_DATA_CONTROL, 0>>

IsSelClass(e) == e.k = "w" /\ e.bytes = <<DATA_CLASS, loc.class>>

IsSelBlock(e) == e.k = "w" /\ e.bytes = <<DATA_BLOCK, loc.at>>

TouchesBlockRegs(e) ==
    e.k \in {"w", "wr"} /\ e.bytes[1] \in DataRegs \cup {BLOCK_DATA_CHECKSUM}

C12_SelectionOrder ==
    \A i \in LogIdx :
        /\ IsRegWrite(log[i], {BLOCK_DATA_CONTROL}) =>
              /\ IsSelControl(log[i])
              /\ i < Len(log) => (IsSelClass(log[i + 1]) \/ IsErr(log[i + 1]))
              /\ i = Len(log) => pc = "prep_class"
        /\ IsRegWrite(log[i], {DATA_CLASS}) =>
              /\ IsSelClass(log[i])
              /\ i > 1 /\ IsSelControl(log[i - 1])
              /\ i < Len(log) => (IsSelBlock(log[i + 1]) \/ IsErr(log[i + 1]))
              /\ i = Len(log) => pc = "prep_block"
        /\ IsRegWrite(log[i], {DATA_BLOCK}) =>
              /\ IsSelBlock(log[i])
              /\ i > 1 /\ IsSelClass(log[i - 1])
              /\ i < Len(log) => IsDelay(log[i + 1], 5)
              /\ i = Len(log) => pc = "prep_delay"
        /\ TouchesBlockRegs(log[i]) =>
              \E j \in LogIdx :
                  /\ j + 1 < i
                  /\ IsSelBlock(log[j])
                  /\ IsDelay(log[j + 1], 5)

C12_Witness ==
    /\ Done
    /\ op.name = "memblock_read"
    /\ result = "Ok"
    /\ Len(log) = 6
    /\ IsSelControl(log[1])
    /\ IsSelClass(log[2])
    /\ IsSelBlock(log[3])
    /\ IsDelay(log[4], 5)
    /\ IsChecksumRead(log[5])
    /\ IsBlockRead(log[6])

(***************************************************************************)
(* C13.  Block write wire sequence: in a memblock_write that ran to its    *)
(* soft reset, the bus log after the FLAGS read that showed CFGUPMODE is   *)
(* the window selection, the 32 writes [0x40 + i, data[i]] for i = 0..31   *)
(* in ascending order, one write [0x60, checksum], a 5 ms delay, the       *)
(* selection of the same window again, one read of the checksum register   *)
(* and the soft reset, with no other bus write before the settle delay.    *)
(***************************************************************************)
IsSelection(k) ==
    /\ IsSelControl(log[k + 1])
    /\ IsSelClass(log[k + 2])
    /\ IsSelBlock(log[k + 3])
    /\ IsDelay(log[k + 4], 5)

\* the log from position k + 1 on is the wire sequence, with `extra` entries
\* between the selection and the first data write
WireSequenceFrom(k, extra) ==
    LET d == k + 4 + extra IN
    /\ Len(log) = d + 40
    /\ IsSelection(k)
    /\ \A i \in 0..31 :
          log[d + 1 + i] = [k |-> "w", bytes |-> <<64 + i, loc.data[i]>>, resp |-> <<>>]
    /\ log[d + 33] = [k |-> "w", bytes |-> <<96, LocalChecksum>>, resp |-> <<>>]
    /\ IsDelay(log[d + 34], 5)
    /\ IsSelection(d + 34)
    /\ IsChecksumRead(log[d + 39])
    /\ IsControl(log[d + 40], SOFT_RESET)

WriteCompleted == Done /\ InWrite /\ result \in {"Ok", "Checksum"}

C13_WireSequence ==
    WriteCompleted =>
        \A k \in CfgupSeenIdx \cap WriteIdx : WireSequenceFrom(k, 0)

(***************************************************************************)
(* C14.  Errata patch failure is reported: when an errata patch (probe on  *)
(* a BQ27427, or either remediation run on its own) found the gain sign    *)
(* bit set, issued its corrective checksum write, and the bit is still set *)
(* in the chip when it returns, it does not return Ok.                     *)
(***************************************************************************)
PatchNames == ErrataNames \cup {"probe"}

PatchFailed ==
    /\ Done
    /\ op.name \in PatchNames
    /\ SignSet(op.mem0[CcCalKey])
    /\ \E i \in LogIdx : IsRegWrite(log[i], {BLOCK_DATA_CHECKSUM})
    /\ SignSet(chip.mem[CcCalKey])

IsControlRead(e) == e.k = "wr" /\ e.bytes = <<CONTROL>> /\ Len(e.resp) = 2

\* the type the DEVICE_TYPE response in the log decodes to
ProbedType == ChipType_from(log[2].resp[1] + 256 * log[2].resp[2])

PatcherAccess(e) ==
    \/ IsRegWrite(e, SelectorRegs)
    \/ TouchesBlockRegs(e)
    \/ IsControl(e, SET_CFGUPDATE)
    \/ IsControl(e, SOFT_RESET)
    \/ IsFlagsRead(e)

C15_PatcherGated ==
    op.name = "probe" =>
        /\ Len(log) >= 1 => (IsControl(log[1], DEVICE_TYPE) \/ IsErr(log[1]))
        /\ Len(log) >= 2 => (IsControlRead(log[2]) \/ IsErr(log[2]))
        /\ \A i \in LogIdx :
              (i > 2 \/ PatcherAccess(log[i])) =>
                  (i > 2 /\ IsControlRead(log[2]) /\ ProbedType = "BQ27427")
        /\ (Len(log) >= 2 /\ IsControlRead(log[2]) /\ ProbedType # "BQ27427"
              /\ pc # "pr_decode") =>
              /\ Done
              /\ result = "Ok"
              /\ loc.device_type = ProbedType
              /\ log[2].resp = <<255, 255>> => loc.device_type = "Unknown"

C15_Witness ==
    /\ Done
    /\ op.name = "probe"
    /\ result = "Ok"
    /\ Len(log) = 2
    /\ log[2].resp = <<255, 255>>
    /\ loc.device_type = "Unknown"

(***************************************************************************)
(* C16.  Command envelope shapes: a simple-command read is exactly one     *)
(* write-then-read sending the 1-byte opcode and receiving 2 bytes; a      *)
(* control-command read is exactly one 3-byte write [0x00, subcommand low  *)
(* byte, subcommand high byte] and then exactly one write-then-read of     *)
(* [0x00] for 2 bytes; the value returned is                               *)
(* response[0] + 256 * response[1].                                        *)
(***************************************************************************)
IsSimpleRead(e, opcode) == e.k = "wr" /\ e.bytes = <<opcode>> /\ Len(e.resp) = 2

WordOf(e) == e.resp[1] + 256 * e.resp[2]

C16_EnvelopeShapes ==
    /\ op.name = "voltage" =>
          /\ Len(log) <= 1
          /\ (Done /\ result = "Ok") =>
                /\ Len(log) = 1
                /\ IsSimpleRead(log[1], 4)
                /\ loc.value = WordOf(log[1])
    /\ op.name = "fw_version" =>
          /\ Len(log) <= 2
          /\ (Done /\ result = "Ok") =>
                /\ Len(log) = 2
                /\ log[1] = [k |-> "w", bytes |-> <<0, 2, 0>>, resp |-> <<>>]
                /\ IsSimpleRead(log[2], 0)
                /\ loc.value = WordOf(log[2])

C16_Witness ==
    /\ Done
    /\ op.name = "fw_version"
    /\ result = "Ok"
    /\ log[2].resp = <<33, 4>>
    /\ loc.value = 1057

(***************************************************************************)
(* C17.  Checksum formula: the block checksum the driver computes for a    *)
(* 32-byte buffer is 255 - (sum of the 32 bytes mod 256), a value in       *)
(* 0..255; computed again on the unmodified buffer it is the same.         *)
(***************************************************************************)
RECURSIVE PlainSum(_, _)
PlainSum(block, i) == IF i > 31 THEN 0 ELSE block[i] + PlainSum(block, i + 1)

C17_ChecksumFormula ==
    /\ pc \in {"pure_lib", "pure_mem", "pure_again"} =>
          /\ loc.checksum = 255 - (PlainSum(loc.data, 0) % 256)
          /\ loc.checksum \in 0..255
    /\ pc = "pure_again" => loc.chip_checksum = loc.checksum

\* a buffer whose plain sum exceeds 255
C17_Witness ==
    /\ pc = "pure_again"
    /\ PlainSum(loc.data, 0) > 600
    /\ loc.chip_checksum = 255 - (PlainSum(loc.data, 0) % 256)

(***************************************************************************)
(* C18.  Status flag decode: get_flags decodes every raw 16-bit FLAGS      *)
(* word, bits 10 to 13 of the raw word are the same in the decoded         *)
(* StatusFlags value, and the decoded value contains CFGUPMODE exactly     *)
(* when bit 4 of the raw word is set.                                      *)
(***************************************************************************)
ReservedBits == {10, 11, 12, 13}

Bit(v, n) == (v \div (2 ^ n)) % 2

C18_ReservedBitsPreserved ==
    pc = "pure_flags" =>
        /\ \A n \in ReservedBits : Bit(loc.flags, n) = Bit(loc.value, n)
        /\ contains(loc.flags, CFGUPMODE) <=> Bit(loc.value, 4) = 1

(***************************************************************************)
(* C19.  Register-path checksum update: for a block whose byte 5 has bit 7 *)
(* set and whose stored checksum c is 255 - (sum mod 256), the value       *)
(* c XOR 0x80 that check_fix_bq27427_errata writes is the checksum of the  *)
(* block with bit 7 of byte 5 cleared.                                     *)
(***************************************************************************)
C19_FixedChecksum ==
    pc = "pure_fix" =>
        /\ loc.data[5] = loc.sign - 128
        /\ loc.checksum = 255 - (PlainSum(loc.data, 0) % 256)

\* the stored checksum was below 0x80, so the XOR adds 0x80
C19_Witness ==
    /\ pc = "pure_fix"
    /\ loc.sign = 255
    /\ loc.checksum >= 128
    /\ loc.checksum = 255 - (PlainSum(loc.data, 0) % 256)

(***************************************************************************)
(* C20.  Balanced mode transitions: when an operation returns Ok, every    *)
(* SET_CFGUPDATE it sent is followed in its bus log by a SOFT_RESET; and   *)
(* no operation sends a SET_CFGUPDATE while an earlier one of its own has  *)
(* no SOFT_RESET after it yet.                                             *)
(***************************************************************************)
C20_BalancedModeTransitions ==
    /\ (Done /\ result = "Ok") =>
          \A j \in SetCfgIdx : \E m \in SoftResetIdx : j < m
    /\ \A i \in SetCfgIdx, j \in SetCfgIdx :
          i < j => \E m \in SoftResetIdx : i < m /\ m < j

C20_Witness ==
    /\ Done
    /\ result = "Ok"
    /\ op.name = "write_chem_id"
    /\ SetCfgIdx # {}
    /\ IsControl(log[Len(log)], SOFT_RESET)

(***************************************************************************)
(* C21.  write_chem_id rejects ChemId::Unknown before touching the chip:   *)
(* called with Unknown it issues no bus transaction; called with A4350,    *)
(* B4200 or C4400 and returning Ok it has issued SET_CFGUPDATE, the flag   *)
(* polls up to the one that shows CFGUPMODE, the subcommand 0x0030, 0x0031 *)
(* or 0x0032 of the chemistry, and SOFT_RESET, in this order.              *)
(***************************************************************************)
ChemCode == IF op.id = "A4350" THEN 48 ELSE IF op.id = "B4200" THEN 49 ELSE 50

ChemSequence ==
    LET n == Len(log) IN
    /\ n >= 5
    /\ IsControl(log[1], SET_CFGUPDATE)
    /\ \A i \in 2..(n - 2) :
          IF i % 2 = 0 THEN IsDelay(log[i], 500) ELSE IsFlagsRead(log[i])
    /\ CfgupSeenIdx = {n - 2}
    /\ log[n - 1] = [k |-> "w", bytes |-> <<0, ChemCode, 0>>, resp |-> <<>>]
    /\ IsControl(log[n], SOFT_RESET)

C21_UnknownRejectedFirst ==
    op.name = "write_chem_id" =>
        /\ op.id = "Unknown" => (log = <<>> /\ chip.cfgup = op.cfgup0)
        /\ (op.id # "Unknown" /\ Done /\ result = "Ok") => ChemSequence

(***************************************************************************)
(* C22.  set_programmed_capacity is a read-modify-write of bytes 6 and 7   *)
(* of STATE block 0: when it returns Ok, byte 6 of the block holds the     *)
(* high byte and byte 7 the low byte of the capacity, the other 30 bytes   *)
(* and the other blocks are as they were at the start of the call, and a   *)
(* following get_programmed_capacity that returns Ok returns the capacity; *)
(* when the initial read fails its checksum check, the call returns        *)
(* Checksum and has issued no SET_CFGUPDATE and no data or checksum write. *)
(***************************************************************************)
StateKey == <<82, 0>>

CapacitySet == Done /\ op.name = "set_programmed_capacity" /\ result = "Ok"

GetAfterSet ==
    /\ Done
    /\ op.name = "get_programmed_capacity"
    /\ result = "Ok"
    /\ prev.op.name = "set_programmed_capacity"
    /\ prev.result = "Ok"

C22_CapacityReadModifyWrite ==
    /\ CapacitySet =>
          /\ chip.mem[StateKey][6] = op.capacity \div 256
          /\ chip.mem[StateKey][7] = op.capacity % 256
          /\ \A i \in (0..31) \ {6, 7} : chip.mem[StateKey][i] = op.mem0[StateKey][i]
          /\ \A key \in MemKeys \ {StateKey} : chip.mem[key] = op.mem0[key]
    /\ GetAfterSet => loc.value = prev.op.capacity
    /\ (op.name = "set_programmed_capacity" /\ ReadMismatch) =>
          /\ Done
          /\ result = "Checksum"
          /\ SetCfgIdx = {}
          /\ ConfigWriteIdx = {}

\* a capacity that differs from the stored one was set and read back
C22_Witness ==
    /\ GetAfterSet
    /\ loc.value = 258
    /\ chip.mem[StateKey][6] = 1
    /\ chip.mem[StateKey][7] = 2
    /\ chip.mem[StateKey][0] = 7

(***************************************************************************)
(* C23.  The errata patch changes only the gain sign bit: when either      *)
(* patch variant returns Ok, every byte of CC_CAL block 0 other than byte  *)
(* 5 is as it was, bits 0 to 6 of byte 5 are as they were, bit 7 of byte 5 *)
(* is clear, and every other block is as it was.                           *)
(***************************************************************************)
PatchOk == Done /\ op.name \in ErrataNames /\ result = "Ok"

OnlyByte5Touched ==
    /\ \A i \in (0..31) \ {5} : chip.mem[CcCalKey][i] = op.mem0[CcCalKey][i]
    /\ chip.mem[CcCalKey][5] % 128 = op.mem0[CcCalKey][5] % 128
    /\ \A key \in MemKeys \ {CcCalKey} : chip.mem[key] = op.mem0[key]

C23_OnlySignBitChanged ==
    PatchOk =>
        /\ OnlyByte5Touched
        /\ chip.mem[CcCalKey][5] < 128

====
